---------------------------- MODULE Spec2Model ----------------------------
(***************************************************************************)
(* Query-time resolution of GraphQL interfaces over a typed entity store:  *)
(* the type-reference abstraction (ObjectOrInterface), the interface       *)
(* index, the store's write path with its id-collision check, and the      *)
(* execution of one query (validation, per-implementor store calls,        *)
(* fragment merge per concrete type, assembly of the ordered result).      *)
(***************************************************************************)
EXTENDS Integers, Sequences, FiniteSets, TLC

(***************************************************************************)
(* Bounds of the model.                                                    *)
(***************************************************************************)
\* most entities a store namespace holds
MaxEntities == 3
\* largest `first` and `skip` arguments of a list query
MaxFirst == 2
MaxSkip == 1

\* entity ids (ordered, as id strings are) and the values of `legs`
Ids == {1, 2}
LegVals == {1, 2}
\* the null reference / the null value
Null == 0

(***************************************************************************)
(* The schema: two interfaces and three entity types.  Animal and          *)
(* Furniture share Legged, Animal and Robot share Pet, Furniture and Robot *)
(* share no interface.  `parent` is declared on Animal only, not on        *)
(* Legged; `children` is declared on Legged and derived from `parent`.     *)
(***************************************************************************)
FieldDef(n, t, l, d) == [name |-> n, type |-> t, list |-> l, derivedFrom |-> d]

IdField == FieldDef("id", "ID", FALSE, "")
LegsField == FieldDef("legs", "Int", FALSE, "")
ParentField == FieldDef("parent", "Legged", FALSE, "")
ChildrenField == FieldDef("children", "Animal", TRUE, "parent")

LeggedType == [name |-> "Legged", fields |-> <<IdField, LegsField, ChildrenField>>]
PetType == [name |-> "Pet", fields |-> <<IdField>>]

AnimalType ==
    [name |-> "Animal", implements |-> {"Legged", "Pet"},
     fields |-> <<IdField, LegsField, ParentField, ChildrenField>>]
FurnitureType ==
    [name |-> "Furniture", implements |-> {"Legged"},
     fields |-> <<IdField, LegsField, ChildrenField>>]
RobotType == [name |-> "Robot", implements |-> {"Pet"}, fields |-> <<IdField>>]

\* the schema document's object types, in document order
SchemaObjects == <<AnimalType, FurnitureType, RobotType>>
SchemaInterfaces == <<LeggedType, PetType>>

Range(s) == {s[i] : i \in DOMAIN s}

ObjectNames == {o.name : o \in Range(SchemaObjects)}
InterfaceNames == {i.name : i \in Range(SchemaInterfaces)}

\* the subsequence of s whose elements satisfy Keep
RECURSIVE SelectSeqBy(_, _)
SelectSeqBy(s, keep) ==
    IF s = <<>> THEN <<>>
    ELSE IF Head(s).name \in keep THEN <<Head(s)>> \o SelectSeqBy(Tail(s), keep)
    ELSE SelectSeqBy(Tail(s), keep)

\* Schema::types_for_interface: interface name -> its implementors, in order
types_for_interface ==
    [i \in InterfaceNames |->
        SelectSeqBy(SchemaObjects,
                    {o.name : o \in {x \in Range(SchemaObjects) : i \in x.implements}})]

(***************************************************************************)
(* ObjectOrInterface.                                                      *)
(***************************************************************************)
Object(o) == [tag |-> "Object", def |-> o]
Interface(i) == [tag |-> "Interface", def |-> i]

is_object(self) == self.tag = "Object"
is_interface(self) == self.tag = "Interface"
name(self) == self.def.name
fields(self) == self.def.fields

None == [some |-> FALSE]
Some(v) == [some |-> TRUE, val |-> v]

\* how a call ends: it returns a value, or it panics
Returns(v) == [returned |-> TRUE, val |-> v]
Panic(msg) == [some |-> FALSE, panic |-> msg]

\* field lookup mutated: any name is found (as the first field)
field_any(self, n) == Some(IdField)

\* field lookup mutated: the comparison is inverted
field_other(self, n) ==
    LET hits == SelectSeq(fields(self), LAMBDA f : f.name # n)
    IN IF hits = <<>> THEN None ELSE Some(Head(hits))

\* field lookup mutated: no name is found
field_none(self, n) == None

\* fields().iter().find(|field| &field.name == name)
field(self, n) ==
    LET hits == SelectSeq(fields(self), LAMBDA f : f.name = n)
    IN IF hits = <<>> THEN None ELSE Some(Head(hits))

\* object_types mutated: an interface yields its first implementor only
object_types_first(self, tfi) ==
    IF is_object(self) THEN Some(<<self.def>>)
    ELSE IF name(self) \in DOMAIN tfi
         THEN Some(SubSeq(tfi[name(self)], 1, 1))
         ELSE None

\* Some(vec![object]) for an object; the index entry, or None, for an interface
object_types(self, tfi) ==
    IF is_object(self) THEN Some(<<self.def>>)
    ELSE IF name(self) \in DOMAIN tfi THEN Some(tfi[name(self)]) ELSE None

\* matches mutated: an interface matches no object type
matches_object_only(self, typename, tfi) ==
    Returns(is_object(self) /\ name(self) = typename)

\* matches mutated: every type reference matches every object type
matches_any(self, typename, tfi) == Returns(TRUE)

\* matches mutated: an interface matches every object type
matches_any_interface(self, typename, tfi) ==
    IF is_object(self) THEN Returns(name(self) = typename) ELSE Returns(TRUE)

\* matches mutated: an interface the index does not know matches nothing
matches_or_false(self, typename, tfi) ==
    IF is_object(self) THEN Returns(name(self) = typename)
    ELSE Returns(/\ name(self) \in DOMAIN tfi
                 /\ \E k \in DOMAIN tfi[name(self)] : tfi[name(self)][k].name = typename)

\* matches mutated: an interface also matches its own name
matches_own_name(self, typename, tfi) ==
    IF name(self) = typename THEN Returns(TRUE)
    ELSE IF is_object(self) THEN Returns(FALSE)
    ELSE IF name(self) \notin DOMAIN tfi THEN Panic("no entry found for key")
    ELSE Returns(\E k \in DOMAIN tfi[name(self)] : tfi[name(self)][k].name = typename)

\* an object matches its own name; an interface matches the names of its
\* entry in the index, and indexing the map with a name it lacks panics
matches(self, typename, tfi) ==
    IF is_object(self) THEN Returns(name(self) = typename)
    ELSE IF name(self) \notin DOMAIN tfi THEN Panic("no entry found for key")
    ELSE Returns(\E k \in DOMAIN tfi[name(self)] : tfi[name(self)][k].name = typename)

\* the schema document: its type definitions
TypeDefinition(kind, def) == [kind |-> kind, def |-> def]

ScalarNames == {"ID", "Int"}

schema ==
    [i \in DOMAIN SchemaInterfaces |-> TypeDefinition("Interface", SchemaInterfaces[i])]
    \o [i \in DOMAIN SchemaObjects |-> TypeDefinition("Object", SchemaObjects[i])]
    \o <<TypeDefinition("Scalar", [name |-> "ID", fields |-> <<>>]),
         TypeDefinition("Scalar", [name |-> "Int", fields |-> <<>>])>>

\* DocumentExt::get_named_type: the definition of that name, if any
get_named_type(doc, n) ==
    LET hits == SelectSeq(doc, LAMBDA td : td.def.name = n)
    IN IF hits = <<>> THEN None ELSE Some(Head(hits))

\* the type reference of a named type; a scalar has no fields
TypeRef(n) ==
    LET td == get_named_type(schema, n).val
    IN IF td.kind = "Interface" THEN Interface(td.def) ELSE Object(td.def)

(***************************************************************************)
(* Result values.                                                          *)
(***************************************************************************)
IntV(n) == [t |-> "Int", v |-> n]
StringV(str) == [t |-> "String", v |-> str]
NullV == [t |-> "Null", v |-> 0]
\* an object is a map from response keys to values
ObjectV(map) == [t |-> "Object", v |-> map]
ListV(items) == [t |-> "List", v |-> items]
EnumV(n) == [t |-> "Enum", v |-> n]

\* resolve_abstract_type mutated: the abstract type's first implementor,
\* whatever the value's tag
resolve_abstract_type_first(doc, abstract_type, object_value) ==
    IF abstract_type.name \in DOMAIN types_for_interface
    THEN Some(types_for_interface[abstract_type.name][1])
    ELSE Some(abstract_type)

\* Resolver::resolve_abstract_type (default): the object type named by the
\* value's `__typename`
resolve_abstract_type(doc, abstract_type, object_value) ==
    IF object_value.t # "Object"
    THEN Panic("abstract type value must be an object")
    ELSE IF "__typename" \notin DOMAIN object_value.v
    THEN Panic("no entry for key")
    ELSE IF object_value.v["__typename"].t # "String"
    THEN Panic("__typename must be a string")
    ELSE LET td == get_named_type(doc, object_value.v["__typename"].v)
         IN IF ~td.some THEN Panic("called unwrap on a None value")
            ELSE IF td.val.kind = "Object" THEN Some(td.val.def)
            ELSE Panic("only objects may implement interfaces")

\* Result::Ok, Result::Err
Ok(v) == [ok |-> TRUE, val |-> v]
Err(e) == [ok |-> FALSE, err |-> e]

\* Option::unwrap_or
unwrap_or(opt, default) == IF opt.some THEN opt.val ELSE default

\* QueryExecutionError::NotSupported
NotSupported(msg) == [kind |-> "NotSupported", msg |-> msg]

\* resolve_enum_value mutated: the value is checked against the enum's values
resolve_enum_value_checked(_field, _enum_type, value) ==
    IF value.some /\ value.val.t = "Enum" /\ value.val.v \in _enum_type.values
    THEN Ok(value.val)
    ELSE Err([kind |-> "EnumCoercionError", msg |-> _enum_type.name])

\* Resolver::resolve_enum_value (default)
resolve_enum_value(_field, _enum_type, value) == Ok(unwrap_or(value, NullV))

\* Resolver::resolve_scalar_value (default)
resolve_scalar_value(_parent_object_type, _field, _scalar_type, value, _argument_values) ==
    Ok(unwrap_or(value, NullV))

\* Resolver::resolve_enum_values (default)
resolve_enum_values(_field, _enum_type, value) == Ok(unwrap_or(value, NullV))

\* Resolver::resolve_scalar_values (default)
resolve_scalar_values(_field, _scalar_type, value) == Ok(unwrap_or(value, NullV))

\* resolve_field_stream mutated: a stream without events
resolve_field_stream_empty(_schema, _object_type, _field) == Ok([stream |-> <<>>])

\* Resolver::resolve_field_stream (default)
resolve_field_stream(_schema, _object_type, _field) ==
    Err(NotSupported("Resolving field streams is not supported by this resolver"))

(***************************************************************************)
(* The store: one namespace, entities keyed by (type, id).                 *)
(***************************************************************************)
VARIABLES
    store,      \* the entities of the namespace
    lastWrite,  \* what the last transaction returned
    pc,         \* idle | written | planning | fetching | done | failed
    query,      \* the query being executed
    errors,     \* the execution's error list
    calls,      \* the store reads issued for the query, in order
    pending,    \* implementor types whose root fetch has not returned
    batches,    \* root fetches that returned, in order of arrival
    relRows,    \* relation job -> the rows its batched fetch returned
    result,     \* the assembled result
    prev,       \* the collection query a get-by-id query follows, and its result
    call,       \* a call of a function of ObjectOrInterface or Resolver
    ret         \* how the call ended

vars ==
    <<store, lastWrite, pc, query, errors, calls, pending, batches, relRows, result,
      prev, call, ret>>

callVars == <<call, ret>>

queryVars == <<query, errors, calls, pending, batches, relRows, result, prev>>

\* the entities an EntityOperation::Set may carry
AnimalData == [id : Ids, legs : LegVals, parent : Ids \cup {Null}]
FurnitureData == [id : Ids, legs : LegVals]
RobotData == [id : Ids]
SetOps ==
    {[entity_type |-> "Animal", entity_id |-> d.id, data |-> d] : d \in AnimalData}
    \cup {[entity_type |-> "Furniture", entity_id |-> d.id, data |-> d] :
            d \in FurnitureData}
    \cup {[entity_type |-> "Robot", entity_id |-> d.id, data |-> d] : d \in RobotData}

\* the interfaces a type implements, read off the index
InterfacesOf(t) ==
    {i \in DOMAIN types_for_interface :
        matches(TypeRef(i), t, types_for_interface) = Returns(TRUE)}

\* the other types that share an interface with t
TypesSharingInterface(t) ==
    {u \in ObjectNames \ {t} :
        \E i \in InterfacesOf(t) :
            LET ots == object_types(TypeRef(i), types_for_interface)
            IN ots.some /\ \E k \in DOMAIN ots.val : ots.val[k].name = u}

\* the stored entities that collide with setting (t, id)
Conflicts(s, t, id) ==
    {e \in s : e.entity_id = id /\ e.entity_type \in TypesSharingInterface(t)}

\* Set: insert or overwrite the entity of that key
ApplySet(s, op) ==
    {e \in s : ~(e.entity_type = op.entity_type /\ e.entity_id = op.entity_id)}
    \cup {op}

IntegrityError(t, u, id) ==
    [kind |-> "ConflictingId", set_type |-> t, existing_type |-> u, id |-> id]

\* the operations of a transaction applied in order; the first collision
\* aborts it
RECURSIVE ApplyOps(_, _)
ApplyOps(s, ops) ==
    IF ops = <<>> THEN [ok |-> TRUE, store |-> s]
    ELSE LET op == Head(ops)
             c == Conflicts(s, op.entity_type, op.entity_id)
         IN IF c # {}
            THEN [ok |-> FALSE,
                  errors |-> {IntegrityError(op.entity_type, e.entity_type,
                                             op.entity_id) : e \in c}]
            ELSE ApplyOps(ApplySet(s, op), Tail(ops))

\* a transaction sets one entity or two
\* the position of an object type in the schema document
TypeRank(t) == CHOOSE i \in DOMAIN SchemaObjects : SchemaObjects[i].name = t

\* the transactions: one entity, or two different entities; a transaction
\* lists its entities in schema order and is applied in either order
OpSeqs ==
    {<<a>> : a \in SetOps}
    \cup {pr \in SetOps \X SetOps :
              \/ TypeRank(pr[1].entity_type) < TypeRank(pr[2].entity_type)
              \/ /\ pr[1].entity_type = pr[2].entity_type
                 /\ pr[1].entity_id < pr[2].entity_id}

NoWrite == [ok |-> TRUE, ops |-> <<>>]

Reverse(s) == [i \in DOMAIN s |-> s[Len(s) + 1 - i]]

\* transact_entity_operations: all operations or none; which of two
\* entities is inserted first is not determined
Transact(ops) ==
    \E order \in {ops, Reverse(ops)} :
    LET r == ApplyOps(store, order)
    IN IF r.ok
       THEN /\ Cardinality(r.store) <= MaxEntities
            /\ store' = r.store
            /\ lastWrite' = [ok |-> TRUE, ops |-> ops]
       ELSE /\ \E err \in r.errors :
                   lastWrite' = [ok |-> FALSE, ops |-> ops, error |-> err]
            /\ UNCHANGED store

Write ==
    /\ pc = "idle"
    /\ \E ops \in OpSeqs : Transact(ops)
    /\ pc' = "written"
    /\ UNCHANGED queryVars
    /\ UNCHANGED callVars

\* the transaction's result is handed to the caller
Ack ==
    /\ pc = "written"
    /\ pc' = "idle"
    /\ lastWrite' = NoWrite
    /\ UNCHANGED <<store, queryVars>>
    /\ UNCHANGED callVars

(***************************************************************************)
(* Selection sets.  An item is a field (response key, name, nested         *)
(* selection) or a fragment (type condition or none, selection); a named   *)
(* fragment spread is the fragment definition it names.                    *)
(***************************************************************************)
Field(key, n, sel) == [k |-> "field", key |-> key, name |-> n, cond |-> "", sel |-> sel]
Fragment(cond, sel) == [k |-> "frag", key |-> "", name |-> "", cond |-> cond, sel |-> sel]

UnknownField(t, f) == [kind |-> "UnknownField", type |-> t, field |-> f]

\* Validation of a selection set against the type of its position: one
\* UnknownField per reference to a field the type does not declare.  A
\* fragment's body is checked against its type condition, or against the
\* enclosing type when it has none.
RECURSIVE Validate(_, _)
Validate(tref, sel) ==
    IF sel = <<>> THEN <<>>
    ELSE LET it == Head(sel)
             here ==
                 IF it.k = "frag"
                 THEN Validate(IF it.cond = "" THEN tref ELSE TypeRef(it.cond), it.sel)
                 ELSE IF it.name = "__typename" THEN <<>>
                 ELSE LET fd == field(tref, it.name)
                      IN IF ~fd.some THEN <<UnknownField(name(tref), it.name)>>
                         ELSE IF it.sel = <<>> THEN <<>>
                         ELSE Validate(TypeRef(fd.val.type), it.sel)
         IN here \o Validate(tref, Tail(sel))

\* the plan entry of a response key, or its insertion
MergeField(plan, it) ==
    IF \E i \in DOMAIN plan : plan[i].key = it.key
    THEN LET i == CHOOSE j \in DOMAIN plan : plan[j].key = it.key
         IN [plan EXCEPT ![i].sel = @ \o it.sel]
    ELSE Append(plan, [key |-> it.key, name |-> it.name, sel |-> it.sel])

\* The resolution plan of a selection set for one concrete type: the plain
\* fields and the fields of every fragment whose condition the type
\* satisfies, merged by response key in document order.
RECURSIVE CollectFields(_, _, _)
CollectFields(typename, sel, plan) ==
    IF sel = <<>> THEN plan
    ELSE LET it == Head(sel)
         IN IF it.k = "field"
            THEN CollectFields(typename, Tail(sel), MergeField(plan, it))
            ELSE IF \/ it.cond = ""
                    \/ matches(TypeRef(it.cond), typename, types_for_interface)
                          = Returns(TRUE)
            THEN CollectFields(typename, Tail(sel),
                               CollectFields(typename, it.sel, plan))
            ELSE CollectFields(typename, Tail(sel), plan)

PlanFor(typename, sel) == CollectFields(typename, sel, <<>>)

\* an attribute of a stored entity; null when it has none
Attr(e, n) == IF n \in DOMAIN e.data THEN e.data[n] ELSE Null

\* the order of a list: by the orderBy attribute, then by id
Before(a, b, ob) ==
    \/ Attr(a, ob) < Attr(b, ob)
    \/ Attr(a, ob) = Attr(b, ob) /\ a.entity_id < b.entity_id

RECURSIVE SortEntities(_, _)
SortEntities(S, ob) ==
    IF S = {} THEN <<>>
    ELSE LET m == CHOOSE x \in S : \A y \in S \ {x} : Before(x, y, ob)
         IN <<m>> \o SortEntities(S \ {m}, ob)

RECURSIVE Flatten(_)
Flatten(ss) == IF ss = <<>> THEN <<>> ELSE Head(ss) \o Flatten(Tail(ss))

\* skip the first `skip` items, keep at most `first`
Window(s, first, skip) ==
    SubSeq(s, skip + 1, IF skip + first < Len(s) THEN skip + first ELSE Len(s))

\* a row as the store hands it over: the entity's attributes and the
\* `__typename` of the type it is stored under
StoredValue(e) ==
    ObjectV([n \in DOMAIN e.data \cup {"__typename"} |->
                IF n = "__typename" THEN StringV(e.entity_type)
                ELSE IF e.data[n] = Null THEN NullV ELSE IntV(e.data[n])])

\* the concrete type of a row at a position of type `abstract`
ConcreteType(abstract, e) ==
    name(Object(resolve_abstract_type(schema, TypeRef(abstract).def, StoredValue(e)).val))

IsRelation(typename, n) ==
    LET fd == field(TypeRef(typename), n)
    IN fd.some /\ fd.val.type \in ObjectNames \cup InterfaceNames

\* a scalar attribute of an entity of concrete type typename, or `__typename`
ScalarValue(e, typename, n) ==
    IF n = "__typename" THEN StringV(typename)
    ELSE IF Attr(e, n) # Null THEN IntV(Attr(e, n))
    ELSE NullV

\* the plan's entry of a response key
PlanEntry(plan, key) == plan[CHOOSE i \in DOMAIN plan : plan[i].key = key]

PlanKeys(plan) == {plan[i].key : i \in DOMAIN plan}

\* the object of a related entity: its plan has scalar fields only
ChildObject(e, abstract, sel) ==
    LET typename == ConcreteType(abstract, e)
        plan == PlanFor(typename, sel)
    IN ObjectV([key \in PlanKeys(plan) |->
                    ScalarValue(e, typename, PlanEntry(plan, key).name)])

\* the relation jobs of one level: one per relation field of the plan of
\* each concrete type among the parents
RelJob(typename, key) == [ptype |-> typename, key |-> key]

RelJobs(abstract, sel, parents) ==
    UNION {LET typename == ConcreteType(abstract, e)
           IN {RelJob(typename, pl.key) :
                  pl \in {x \in Range(PlanFor(typename, sel)) :
                              IsRelation(typename, x.name)}} :
           e \in parents}

\* the batched fetch of a relation for all parents of one concrete type:
\* a forward reference joins on the referenced ids, a derived relation on
\* the children's back-reference
FetchRelation(s, abstract, typename, n, parents) ==
    LET fd == field(TypeRef(typename), n).val
        mine == {p \in parents : ConcreteType(abstract, p) = typename}
        targets == object_types(TypeRef(fd.type), types_for_interface).val
        stored == {e \in s : \E k \in DOMAIN targets : targets[k].name = e.entity_type}
    IN IF fd.derivedFrom = ""
       THEN {e \in stored : \E p \in mine : Attr(p, n) = e.entity_id}
       ELSE {e \in stored : \E p \in mine : Attr(e, fd.derivedFrom) = p.entity_id}

\* the value of a relation field of parent e, from the rows of its job:
\* the rows are handed to their owners by key
RelationValue(e, typename, pl, rows) ==
    LET fd == field(TypeRef(typename), pl.name).val
    IN IF fd.derivedFrom = ""
       THEN LET hit == {c \in rows : c.entity_id = Attr(e, pl.name)}
            IN IF hit = {} THEN NullV
               ELSE ChildObject(CHOOSE c \in hit : TRUE, fd.type, pl.sel)
       ELSE LET mine == SortEntities({c \in rows : Attr(c, fd.derivedFrom) = e.entity_id},
                                     "id")
            IN ListV([i \in DOMAIN mine |-> ChildObject(mine[i], fd.type, pl.sel)])

\* the result object of a root entity
RootObject(e, abstract, sel, rel) ==
    LET typename == ConcreteType(abstract, e)
        plan == PlanFor(typename, sel)
    IN ObjectV([key \in PlanKeys(plan) |->
            LET pl == PlanEntry(plan, key)
            IN IF IsRelation(typename, pl.name)
               THEN RelationValue(e, typename, pl, rel[RelJob(typename, key)])
               ELSE ScalarValue(e, typename, pl.name)])

\* a node of the result: the row and the object selected from it
Node(e, abstract, sel, rel) == [entity |-> e, obj |-> RootObject(e, abstract, sel, rel)]

(***************************************************************************)
(* The queries: a list query or a get-by-id query at an interface          *)
(* position, with a selection set of one or two items.                     *)
(***************************************************************************)
SubId == <<Field("id", "id", <<>>)>>
SubLegs == <<Field("legs", "legs", <<>>)>>
SubTypename == <<Field("t", "__typename", <<>>), Field("__typename", "__typename", <<>>)>>

LeggedItems ==
    <<Field("legs", "legs", <<>>),
     Field("__typename", "__typename", <<>>),
     Field("t", "__typename", <<>>),
     Field("children", "children", SubId),
     Field("parent", "parent", SubId),
     Fragment("Animal", <<Field("parent", "parent", SubId)>>),
     Fragment("Animal", <<Field("parent", "parent", SubTypename)>>),
     Fragment("Furniture", <<Field("legs", "legs", <<>>)>>),
     Fragment("Pet", <<Field("id", "id", <<>>)>>),
     Fragment("Legged", <<Field("children", "children", SubLegs)>>),
     Fragment("", <<Field("legs", "legs", <<>>)>>),
     Fragment("", <<Field("parent", "parent", SubId)>>)>>

PetItems ==
    <<Field("id", "id", <<>>),
     Field("legs", "legs", <<>>),
     Fragment("Legged", <<Field("legs", "legs", <<>>)>>)>>

\* fragments on different object types that give one alias to different
\* fields, scalar and relation; and selections that repeat a key after
\* another one, behind a fragment that applies to some types only
AliasedSelections ==
    {<<Fragment("Animal", <<Field("x", "id", <<>>)>>),
       Fragment("Furniture", <<Field("x", "legs", <<>>)>>)>>,
     <<Fragment("Animal", <<Field("friend", "parent", SubId)>>),
       Fragment("Furniture", <<Field("friend", "children", SubId)>>)>>,
     <<Fragment("Furniture", <<Field("id", "id", <<>>)>>),
       Field("legs", "legs", <<>>),
       Field("id", "id", <<>>)>>,
     <<Fragment("Pet", <<Field("id", "id", <<>>)>>),
       Field("legs", "legs", <<>>),
       Fragment("Legged", <<Field("id", "id", <<>>), Field("legs", "legs", <<>>)>>)>>}

\* one item, one item twice, or two items in the order listed
Selections(items) ==
    {<<items[i]>> : i \in DOMAIN items}
    \cup {<<items[pr[1]], items[pr[2]]>> :
              pr \in {ij \in (DOMAIN items) \X (DOMAIN items) : ij[1] <= ij[2]}}

ListQuery(pos, ob, first, skip, sel) ==
    [kind |-> "list", pos |-> pos, id |-> Null, orderBy |-> ob,
     first |-> first, skip |-> skip, sel |-> sel]
ByIdQuery(pos, id, sel) ==
    [kind |-> "byid", pos |-> pos, id |-> id, orderBy |-> "id",
     first |-> 1, skip |-> 0, sel |-> sel]

\* a `first` that no list exceeds
FullFirst == MaxEntities

\* the collection queries: every selection with the whole list, every
\* window and order with one selection
Queries ==
    {ListQuery("Legged", "legs", FullFirst, 0, sel) :
        sel \in Selections(LeggedItems) \cup AliasedSelections}
    \cup {ListQuery("Legged", ob, first, skip, <<Field("legs", "legs", <<>>)>>) :
            ob \in {"id", "legs"}, first \in 1 .. MaxFirst, skip \in 0 .. MaxSkip}
    \cup {ListQuery("Pet", "id", FullFirst, 0, sel) : sel \in Selections(PetItems)}

NoQuery == [kind |-> "none"]
NoCall == [fn |-> "none"]
NoRet == [done |-> FALSE]
NoPrev == [kind |-> "none"]

(***************************************************************************)
(* The execution of one query.                                             *)
(***************************************************************************)
Submit ==
    /\ pc = "idle"
    /\ \E q \in Queries : query' = q
    /\ pc' = "planning"
    /\ errors' = <<>>
    /\ calls' = <<>>
    /\ pending' = {}
    /\ batches' = <<>>
    /\ relRows' = <<>>
    /\ result' = <<>>
    /\ prev' = NoPrev
    /\ UNCHANGED <<store, lastWrite>>
    /\ UNCHANGED callVars

\* the caller follows a collection query by a get-by-id query with the same
\* selection
Lookup ==
    /\ pc \in {"done", "failed"}
    /\ query.kind = "list" /\ query.first >= FullFirst /\ query.skip = 0
    /\ \E id \in Ids : query' = ByIdQuery(query.pos, id, query.sel)
    /\ prev' = [kind |-> "list", query |-> query, ok |-> pc = "done", result |-> result]
    /\ pc' = "planning"
    /\ errors' = <<>>
    /\ calls' = <<>>
    /\ pending' = {}
    /\ batches' = <<>>
    /\ relRows' = <<>>
    /\ result' = <<>>
    /\ UNCHANGED <<store, lastWrite>>
    /\ UNCHANGED callVars

\* planning: the selection is validated against the position's type; with
\* no error, one root fetch per implementor type is due
Plan ==
    /\ pc = "planning"
    /\ LET errs == Validate(TypeRef(query.pos), query.sel)
           ots == object_types(TypeRef(query.pos), types_for_interface)
       IN IF errs # <<>>
          THEN /\ errors' = errs
               /\ pc' = "failed"
               /\ UNCHANGED pending
          ELSE /\ pending' = {ots.val[k].name : k \in DOMAIN ots.val}
               /\ pc' = "fetching"
               /\ UNCHANGED errors
    /\ UNCHANGED <<store, lastWrite, query, calls, batches, relRows, result, prev>>
    /\ UNCHANGED callVars

\* the rows of one implementor type: a range query in the list's order, or
\* a point lookup
RootRows(s, q, typename) ==
    IF q.kind = "list"
    THEN SortEntities({e \in s : e.entity_type = typename}, q.orderBy)
    ELSE SortEntities({e \in s : e.entity_type = typename /\ e.entity_id = q.id}, "id")

FetchRoot ==
    /\ pc = "fetching"
    /\ \E typename \in pending :
        /\ batches' = Append(batches, RootRows(store, query, typename))
        /\ pending' = pending \ {typename}
        /\ calls' = Append(calls, [op |-> query.kind, type |-> typename, key |-> ""])
    /\ UNCHANGED <<store, lastWrite, pc, query, errors, relRows, result, prev>>
    /\ UNCHANGED callVars

\* the merge of the batches that arrived: one list in the query's order,
\* cut to its window
MergeBatches(bs, q) ==
    Window(SortEntities(Range(Flatten(bs)), q.orderBy), q.first, q.skip)

Roots == MergeBatches(batches, query)

NameOfKey(typename, sel, key) == PlanEntry(PlanFor(typename, sel), key).name

FetchRel ==
    /\ pc = "fetching"
    /\ pending = {}
    /\ \E job \in RelJobs(query.pos, query.sel, Range(Roots)) \ DOMAIN relRows :
        /\ relRows' = relRows @@
              (job :> FetchRelation(store, query.pos, job.ptype,
                                    NameOfKey(job.ptype, query.sel, job.key),
                                    Range(Roots)))
        /\ calls' = Append(calls, [op |-> "relation", type |-> job.ptype, key |-> job.key])
    /\ UNCHANGED <<store, lastWrite, pc, query, errors, pending, batches, result, prev>>
    /\ UNCHANGED callVars

Assemble ==
    /\ pc = "fetching"
    /\ pending = {}
    /\ RelJobs(query.pos, query.sel, Range(Roots)) \subseteq DOMAIN relRows
    /\ result' = [i \in DOMAIN Roots |-> Node(Roots[i], query.pos, query.sel, relRows)]
    /\ pc' = "done"
    /\ UNCHANGED <<store, lastWrite, query, errors, calls, pending, batches, relRows,
                   prev>>
    /\ UNCHANGED callVars

\* the response's value for the root field
Response ==
    IF query.kind = "list" THEN ListV([i \in DOMAIN result |-> result[i].obj])
    ELSE IF result = <<>> THEN NullV ELSE result[1].obj

Finish ==
    /\ pc \in {"done", "failed"}
    /\ pc' = "idle"
    /\ query' = NoQuery
    /\ errors' = <<>>
    /\ calls' = <<>>
    /\ pending' = {}
    /\ batches' = <<>>
    /\ relRows' = <<>>
    /\ result' = <<>>
    /\ prev' = NoPrev
    /\ UNCHANGED <<store, lastWrite>>
    /\ UNCHANGED callVars

Init ==
    /\ store = {}
    /\ lastWrite = NoWrite
    /\ pc = "idle"
    /\ query = NoQuery
    /\ errors = <<>>
    /\ calls = <<>>
    /\ pending = {}
    /\ batches = <<>>
    /\ relRows = <<>>
    /\ result = <<>>
    /\ prev = NoPrev
    /\ call = NoCall
    /\ ret = NoRet

Next ==
    Write \/ Ack \/ Submit \/ Lookup \/ Plan \/ FetchRoot \/ FetchRel \/ Assemble \/ Finish

Spec == Init /\ [][Next]_vars

(***************************************************************************)
(* The functions of ObjectOrInterface and the default methods of Resolver, *)
(* called on their own: a call is drawn with its arguments, and returns    *)
(* or panics.                                                              *)
(***************************************************************************)
Restrict(f, S) == [x \in S |-> f[x]]

\* interface indexes: the schema's, its restrictions to some interfaces
\* (the others unregistered), and one listing Legged's implementors in the
\* opposite order
Indexes ==
    {Restrict(types_for_interface, S) : S \in SUBSET InterfaceNames}
    \cup {[types_for_interface EXCEPT !["Legged"] = Reverse(@)]}

TypeRefs ==
    {Object(o) : o \in Range(SchemaObjects)}
    \cup {Interface(i) : i \in Range(SchemaInterfaces)}

TypeNames == ObjectNames \cup InterfaceNames \cup {"Unknown"}

\* an object value tagged with a type name
Tagged(n) ==
    ObjectV([k \in {"__typename", "id"} |->
                IF k = "__typename" THEN StringV(n) ELSE IntV(1)])

\* values handed to resolve_abstract_type: tagged with object, interface,
\* scalar and unknown names, untagged, wrongly tagged, and no objects at all
ObjectValues ==
    {Tagged(n) : n \in TypeNames \cup ScalarNames}
    \cup {ObjectV([k \in {"id"} |-> IntV(1)]),
          ObjectV([k \in {"__typename"} |-> IntV(1)]),
          ObjectV([k \in {"__typename"} |-> NullV]),
          IntV(1), StringV("Animal"), NullV, ListV(<<>>)}

AbstractTypes == {LeggedType, PetType, AnimalType}

QueryFields == {Field("legs", "legs", <<>>), Field("t", "__typename", <<>>)}
ScalarTypes == {[name |-> "ID"], [name |-> "Int"]}
EnumTypes ==
    {[name |-> "Color", values |-> {"RED", "GREEN"}],
     [name |-> "Size", values |-> {"BIG"}]}
ArgumentValues == {[k \in {} |-> NullV], [k \in {"first"} |-> IntV(1)]}

\* the already-fetched value, if any
FetchedValues ==
    {None, Some(NullV), Some(IntV(1)), Some(StringV("1")), Some(EnumV("RED")),
     Some(EnumV("PURPLE")), Some(ListV(<<IntV(1), IntV(2)>>))}

\* the planner's runs: a valid selection of a query, for each concrete type
\* reachable at the query's interface position
PlanCalls ==
    UNION {{[fn |-> "PlanFor", typename |-> t.name, sel |-> q.sel] :
                t \in Range(object_types(TypeRef(q.pos), types_for_interface).val)} :
              q \in {x \in Queries : Validate(TypeRef(x.pos), x.sel) = <<>>}}

Calls ==
    PlanCalls
    \cup
    {[fn |-> "matches", self |-> r, typename |-> n, tfi |-> x] :
        r \in TypeRefs, n \in TypeNames, x \in Indexes}
    \cup {[fn |-> "object_types", self |-> r, tfi |-> x] : r \in TypeRefs, x \in Indexes}
    \cup {[fn |-> "resolve_abstract_type", doc |-> schema, abstract_type |-> a,
           object_value |-> v] : a \in AbstractTypes, v \in ObjectValues}
    \cup {[fn |-> "resolve_field_stream", schema |-> schema, object_type |-> o, field |-> f] :
            o \in Range(SchemaObjects), f \in QueryFields}
    \cup {[fn |-> "resolve_enum_value", field |-> f, enum_type |-> t, value |-> v] :
            f \in QueryFields, t \in EnumTypes, v \in FetchedValues}
    \cup {[fn |-> "resolve_scalar_value", parent_object_type |-> o, field |-> f,
           scalar_type |-> t, value |-> v, argument_values |-> a] :
            o \in {AnimalType, RobotType}, f \in QueryFields, t \in ScalarTypes,
            v \in FetchedValues, a \in ArgumentValues}
    \cup {[fn |-> "resolve_enum_values", field |-> f, enum_type |-> t, value |-> v] :
            f \in QueryFields, t \in EnumTypes, v \in FetchedValues}
    \cup {[fn |-> "resolve_scalar_values", field |-> f, scalar_type |-> t, value |-> v] :
            f \in QueryFields, t \in ScalarTypes, v \in FetchedValues}

Return(out) ==
    /\ ~ret.done
    /\ ret' = [done |-> TRUE, out |-> out]
    /\ UNCHANGED <<store, lastWrite, pc, queryVars, call>>

Call_matches ==
    /\ call.fn = "matches"
    /\ Return(matches(call.self, call.typename, call.tfi))

Call_object_types ==
    /\ call.fn = "object_types"
    /\ Return(object_types(call.self, call.tfi))

Call_resolve_abstract_type ==
    /\ call.fn = "resolve_abstract_type"
    /\ Return(resolve_abstract_type(call.doc, call.abstract_type, call.object_value))

Call_resolve_field_stream ==
    /\ call.fn = "resolve_field_stream"
    /\ Return(resolve_field_stream(call.schema, call.object_type, call.field))

Call_resolve_enum_value ==
    /\ call.fn = "resolve_enum_value"
    /\ Return(resolve_enum_value(call.field, call.enum_type, call.value))

Call_resolve_scalar_value ==
    /\ call.fn = "resolve_scalar_value"
    /\ Return(resolve_scalar_value(call.parent_object_type, call.field, call.scalar_type,
                                   call.value, call.argument_values))

Call_resolve_enum_values ==
    /\ call.fn = "resolve_enum_values"
    /\ Return(resolve_enum_values(call.field, call.enum_type, call.value))

Call_resolve_scalar_values ==
    /\ call.fn = "resolve_scalar_values"
    /\ Return(resolve_scalar_values(call.field, call.scalar_type, call.value))

Call_PlanFor ==
    /\ call.fn = "PlanFor"
    /\ Return(PlanFor(call.typename, call.sel))

InitCalls ==
    /\ store = {}
    /\ lastWrite = NoWrite
    /\ pc = "idle"
    /\ query = NoQuery
    /\ errors = <<>>
    /\ calls = <<>>
    /\ pending = {}
    /\ batches = <<>>
    /\ relRows = <<>>
    /\ result = <<>>
    /\ prev = NoPrev
    /\ call \in Calls
    /\ ret = NoRet

NextCalls ==
    \/ Call_matches
    \/ Call_object_types
    \/ Call_resolve_abstract_type
    \/ Call_resolve_field_stream
    \/ Call_resolve_enum_value
    \/ Call_resolve_scalar_value
    \/ Call_resolve_enum_values
    \/ Call_resolve_scalar_values
    \/ Call_PlanFor

SpecCalls == InitCalls /\ [][NextCalls]_vars

(***************************************************************************)
(* What the schema and the store say, read off the definitions themselves. *)
(***************************************************************************)
Implements(t, i) == \E o \in Range(SchemaObjects) : o.name = t /\ i \in o.implements

Declares(tn, f) ==
    \E td \in Range(schema) :
        td.def.name = tn /\ \E k \in DOMAIN td.def.fields : td.def.fields[k].name = f

DeclaredType(tn, f) ==
    LET td == CHOOSE x \in Range(schema) : x.def.name = tn
    IN (CHOOSE fd \in Range(td.def.fields) : fd.name = f).type

SharesInterface(t, u) == \E i \in InterfaceNames : Implements(t, i) /\ Implements(u, i)

\* the stored entities of the implementors of a type
StoredOf(tn) == {e \in store : e.entity_type = tn \/ Implements(e.entity_type, tn)}

\* a fragment's condition is absent, names the type, or names an interface
\* the type implements
Applies(cond, t) == cond = "" \/ cond = t \/ Implements(t, cond)

\* the field selections that reach an entity of concrete type t
RECURSIVE Occurrences(_, _)
Occurrences(t, sel) ==
    IF sel = <<>> THEN <<>>
    ELSE LET it == Head(sel)
         IN (IF it.k = "field" THEN <<it>>
             ELSE IF Applies(it.cond, t) THEN Occurrences(t, it.sel) ELSE <<>>)
            \o Occurrences(t, Tail(sel))

\* the references of a selection to fields their type does not declare
RECURSIVE ExpectedErrors(_, _)
ExpectedErrors(tn, sel) ==
    IF sel = <<>> THEN <<>>
    ELSE LET it == Head(sel)
         IN (IF it.k = "frag"
             THEN ExpectedErrors(IF it.cond = "" THEN tn ELSE it.cond, it.sel)
             ELSE IF it.name = "__typename" THEN <<>>
             ELSE IF ~Declares(tn, it.name) THEN <<UnknownField(tn, it.name)>>
             ELSE IF it.sel = <<>> THEN <<>>
             ELSE ExpectedErrors(DeclaredType(tn, it.name), it.sel))
            \o ExpectedErrors(tn, Tail(sel))

\* the entities a relation field of e points to
Related(e, f) ==
    IF f = "children"
    THEN {c \in store : c.entity_type = "Animal" /\ Attr(c, "parent") = e.entity_id}
    ELSE {c \in StoredOf("Legged") : c.entity_id = Attr(e, f)}

\* the response keys of the sub-selections of every occurrence of key k
NestedKeys(occ, k, childType) ==
    LET mine == SelectSeq(occ, LAMBDA o : o.key = k)
        nested == Occurrences(childType, Flatten([i \in DOMAIN mine |-> mine[i].sel]))
    IN {nested[i].key : i \in DOMAIN nested}

Planned == pc \in {"fetching", "done", "failed"}

(***************************************************************************)
(* C1: a list at an interface position is sorted by the orderBy field      *)
(* across all implementor types together (each adjacent pair is in order,  *)
(* whatever the two types), and holds every stored implementor entity of   *)
(* the first/skip window exactly once and nothing else (entities with      *)
(* equal values may take each other's places).                             *)
(***************************************************************************)
C1_GloballySorted ==
    (pc = "done" /\ query.kind = "list") =>
        LET all == StoredOf(query.pos)
            val(e) == Attr(e, query.orderBy)
            below(e) == Cardinality({x \in all : val(x) < val(e)})
            upto(e) == Cardinality({x \in all \ {e} : val(x) <= val(e)})
            last == query.skip + query.first - 1
            count(e) == Cardinality({i \in DOMAIN result : result[i].entity = e})
        IN /\ \A i \in 1 .. Len(result) - 1 :
                Attr(result[i].entity, query.orderBy)
                    <= Attr(result[i + 1].entity, query.orderBy)
           /\ \A i \in DOMAIN result :
                /\ result[i].entity \in all
                /\ query.orderBy \in DOMAIN result[i].obj.v =>
                      result[i].obj.v[query.orderBy]
                          = IntV(Attr(result[i].entity, query.orderBy))
           /\ \A e \in all :
                /\ count(e) <= 1
                /\ (below(e) >= query.skip /\ upto(e) <= last) => count(e) = 1
                /\ (upto(e) < query.skip \/ below(e) > last) => count(e) = 0
           /\ Len(result) + query.skip >= Cardinality(all) \/ Len(result) = query.first

\* a Furniture with fewer legs and the larger id comes before an Animal
C1_Witness ==
    /\ pc = "done" /\ query.kind = "list" /\ query.orderBy = "legs"
    /\ Len(result) = 2
    /\ result[1].entity.entity_type = "Furniture"
    /\ result[2].entity.entity_type = "Animal"
    /\ result[1].entity.entity_id > result[2].entity.entity_id
    /\ result[1].obj.v["legs"].v < result[2].obj.v["legs"].v

(***************************************************************************)
(* C2: a response key requested more than once for a parent (directly     *)
(* and through fragments that apply to its type) is carried once, with     *)
(* the union of the sub-selections of every occurrence; a list relation    *)
(* holds each related entity once, a parent without related entities gets  *)
(* the empty list or null.                                                 *)
(***************************************************************************)
C2_FragmentsMerge ==
    pc = "done" =>
        \A n \in DOMAIN result :
            LET e == result[n].entity
                obj == result[n].obj.v
                occ == Occurrences(e.entity_type, query.sel)
            IN \A i \in DOMAIN occ, j \in DOMAIN occ :
                 (i < j /\ occ[i].key = occ[j].key) =>
                    LET k == occ[i].key
                        f == occ[i].name
                        rel == Related(e, f)
                    IN /\ k \in DOMAIN obj
                       /\ f = "children" =>
                            /\ obj[k].t = "List"
                            /\ Len(obj[k].v) = Cardinality(rel)
                            /\ \A c \in DOMAIN obj[k].v :
                                 DOMAIN obj[k].v[c].v = NestedKeys(occ, k, "Animal")
                            /\ \A r \in rel :
                                 Cardinality({c \in DOMAIN obj[k].v :
                                     /\ "id" \in DOMAIN obj[k].v[c].v
                                            => obj[k].v[c].v["id"] = IntV(r.entity_id)
                                     /\ "legs" \in DOMAIN obj[k].v[c].v
                                            => obj[k].v[c].v["legs"] = IntV(Attr(r, "legs"))})
                                   >= 1
                       /\ f = "parent" =>
                            IF rel = {} THEN obj[k] = NullV
                            ELSE /\ obj[k].t = "Object"
                                 /\ \A r \in rel :
                                      DOMAIN obj[k].v = NestedKeys(occ, k, r.entity_type)
                       /\ f = "legs" => obj[k] = IntV(Attr(e, "legs"))

\* `children` is requested directly with `id` and through a fragment with
\* `legs`; one parent of the list has a child, carrying both, another none
C2_Witness ==
    /\ pc = "done" /\ query.kind = "list" /\ Len(result) = 2
    /\ Len(query.sel) = 2
    /\ query.sel[1].k = "field" /\ query.sel[1].name = "children"
    /\ query.sel[2].k = "frag"
    /\ \E n \in DOMAIN result :
          /\ Len(result[n].obj.v["children"].v) = 1
          /\ DOMAIN result[n].obj.v["children"].v[1].v = {"id", "legs"}
    /\ \E n \in DOMAIN result : result[n].obj.v["children"] = ListV(<<>>)

(***************************************************************************)
(* C3: the fields of a fragment are in an entity's object if the           *)
(* fragment's condition is absent, names the entity's type or names an     *)
(* interface the type implements; otherwise their keys are absent, unless  *)
(* a part of the selection that applies requests the same key.             *)
(***************************************************************************)
C3_FragmentCondition ==
    pc = "done" =>
        \A n \in DOMAIN result, i \in DOMAIN query.sel :
            LET t == result[n].entity.entity_type
                obj == result[n].obj.v
                it == query.sel[i]
                occ == Occurrences(t, query.sel)
            IN it.k = "frag" =>
                 \A f \in DOMAIN it.sel :
                    IF Applies(it.cond, t) THEN it.sel[f].key \in DOMAIN obj
                    ELSE (it.sel[f].key \in DOMAIN obj)
                            <=> \E o \in DOMAIN occ : occ[o].key = it.sel[f].key

\* `... on Pet { id }` at a Legged list: the Animal has `id`, the Furniture
\* has not
C3_Witness ==
    /\ pc = "done" /\ query.kind = "list" /\ query.pos = "Legged"
    /\ \E i \in DOMAIN query.sel : query.sel[i].k = "frag" /\ query.sel[i].cond = "Pet"
    /\ \E n \in DOMAIN result :
          result[n].entity.entity_type = "Animal" /\ "id" \in DOMAIN result[n].obj.v
    /\ \E n \in DOMAIN result :
          result[n].entity.entity_type = "Furniture" /\ "id" \notin DOMAIN result[n].obj.v

(***************************************************************************)
(* C4: `__typename`, under its own name or an alias, is the name of the    *)
(* object type the entity is stored under, at the root position and in a   *)
(* related object; it is never the interface's name.                       *)
(***************************************************************************)
C4_Typename ==
    pc = "done" =>
        \A n \in DOMAIN result :
            LET e == result[n].entity
                obj == result[n].obj.v
                occ == Occurrences(e.entity_type, query.sel)
            IN /\ e \in store
               /\ \A o \in DOMAIN occ :
                    /\ occ[o].name = "__typename" =>
                          /\ obj[occ[o].key] = StringV(e.entity_type)
                          /\ obj[occ[o].key].v \in ObjectNames \ {query.pos}
                    /\ (occ[o].name = "parent" /\ obj[occ[o].key].t = "Object") =>
                          \A r \in Related(e, "parent"), s \in DOMAIN occ[o].sel :
                             occ[o].sel[s].name = "__typename" =>
                                obj[occ[o].key].v[occ[o].sel[s].key]
                                    = StringV(r.entity_type)

\* a Furniture at a Legged position answers both `__typename` and its alias
C4_Witness ==
    /\ pc = "done" /\ query.pos = "Legged"
    /\ \E n \in DOMAIN result :
          /\ result[n].entity.entity_type = "Furniture"
          /\ DOMAIN result[n].obj.v = {"__typename", "t"}
          /\ result[n].obj.v["t"] = StringV("Furniture")

(***************************************************************************)
(* C5: a get-by-id query returns, for a stored entity of any implementor   *)
(* type, the object the collection query with the same selection holds     *)
(* for that entity; it returns null when no implementor stores the id.     *)
(***************************************************************************)
C5_ByIdEqualsListItem ==
    (pc = "done" /\ query.kind = "byid" /\ prev.kind = "list" /\ prev.ok) =>
        LET hit == {e \in StoredOf(query.pos) : e.entity_id = query.id}
        IN /\ \A e \in hit :
                /\ Response.t = "Object"
                /\ \E i \in DOMAIN prev.result :
                      prev.result[i].entity = e /\ prev.result[i].obj = Response
           /\ hit = {} => Response = NullV

\* the entity is stored under the second implementor, beside an entity of
\* the first
C5_Witness ==
    /\ pc = "done" /\ query.kind = "byid" /\ query.pos = "Legged"
    /\ prev.kind = "list" /\ prev.ok /\ Len(prev.result) = 2
    /\ Len(result) = 1
    /\ result[1].entity.entity_type = "Furniture"
    /\ DOMAIN result[1].obj.v # {}

(***************************************************************************)
(* C6: a transaction that sets an entity of type T with id x while the     *)
(* namespace holds, or the transaction also sets, an entity with id x of   *)
(* another type that shares an interface with T fails, changes nothing,    *)
(* and its error names the two types (in either attribution) and the id.   *)
(***************************************************************************)
CollidingPairs(s, ops) ==
    {pr \in Range(ops) \X (s \cup Range(ops)) :
        /\ pr[1].entity_id = pr[2].entity_id
        /\ pr[1].entity_type # pr[2].entity_type
        /\ SharesInterface(pr[1].entity_type, pr[2].entity_type)}

C6_ConflictFails ==
    [][(pc = "idle" /\ pc' = "written") =>
          LET bad == CollidingPairs(store, lastWrite'.ops)
          IN /\ bad # {} =>
                  /\ ~lastWrite'.ok
                  /\ store' = store
                  /\ lastWrite'.error.kind = "ConflictingId"
                  /\ \E pr \in bad :
                        /\ lastWrite'.error.id = pr[1].entity_id
                        /\ {lastWrite'.error.set_type, lastWrite'.error.existing_type}
                              = {pr[1].entity_type, pr[2].entity_type}
             /\ bad = {} => lastWrite'.ok]_vars

\* both entities are set by one transaction into an empty namespace, and the
\* error says the one listed first was set onto the other
C6_Witness ==
    /\ pc = "written" /\ ~lastWrite.ok /\ store = {}
    /\ Len(lastWrite.ops) = 2
    /\ lastWrite.ops[1].entity_type = "Animal"
    /\ lastWrite.ops[2].entity_type = "Furniture"
    /\ lastWrite.error = IntegrityError("Animal", "Furniture", 1)

(***************************************************************************)
(* C7: no two stored entities of different types that share an interface   *)
(* have the same id, so a get-by-id query on an interface finds at most    *)
(* one entity; types that share no interface may share an id.              *)
(***************************************************************************)
C7_NoSharedIds ==
    /\ \A a \in store, b \in store :
          (a.entity_id = b.entity_id /\ a.entity_type # b.entity_type)
              => ~SharesInterface(a.entity_type, b.entity_type)
    /\ (query.kind = "byid" /\ pc \in {"fetching", "done"})
          => Len(Flatten(batches)) <= 1

\* after a failed write, a Furniture and a Robot hold the same id
C7_Witness ==
    /\ pc = "written" /\ ~lastWrite.ok
    /\ \E a \in store, b \in store :
          /\ a.entity_type = "Furniture" /\ b.entity_type = "Robot"
          /\ a.entity_id = b.entity_id

(***************************************************************************)
(* C8: a field selected at an interface position, directly or in a         *)
(* fragment without type condition, that the interface does not declare    *)
(* fails the query with UnknownField(interface, field), never naming an    *)
(* implementor; under a fragment on the object type that declares it the   *)
(* field is accepted.                                                      *)
(***************************************************************************)
\* the fields selected at the interface's own level that it does not declare
UndeclaredAt(pos, sel) ==
    {sel[i].name : i \in {j \in DOMAIN sel :
        sel[j].k = "field" /\ sel[j].name # "__typename" /\ ~Declares(pos, sel[j].name)}}
    \cup UNION {{sel[i].sel[f].name : f \in {g \in DOMAIN sel[i].sel :
                    ~Declares(pos, sel[i].sel[g].name)}} :
                i \in {j \in DOMAIN sel : sel[j].k = "frag" /\ sel[j].cond = ""}}

\* every fragment on an object type selects fields that type declares
ObjectFragmentsValid(sel) ==
    \A i \in DOMAIN sel :
        (sel[i].k = "frag" /\ sel[i].cond # "") =>
            \A f \in DOMAIN sel[i].sel : Declares(sel[i].cond, sel[i].sel[f].name)

C8_UnknownFieldOnInterface ==
    Planned =>
        LET bad == UndeclaredAt(query.pos, query.sel)
        IN /\ bad # {} =>
                /\ pc = "failed"
                /\ \A f \in bad : UnknownField(query.pos, f) \in Range(errors)
                /\ \A i \in DOMAIN errors :
                      /\ errors[i].kind = "UnknownField"
                      /\ errors[i].field \in bad =>
                            errors[i].type = query.pos /\ errors[i].type \notin ObjectNames
           /\ (bad = {} /\ ObjectFragmentsValid(query.sel)) => pc # "failed"

\* `legged(id) { parent { id } }` fails although an Animal, which declares
\* `parent`, is stored
C8_Witness ==
    /\ pc = "failed" /\ query.kind = "byid" /\ query.pos = "Legged"
    /\ errors = <<UnknownField("Legged", "parent")>>
    /\ \E e \in store : e.entity_type = "Animal" /\ e.entity_id = query.id

\* `... on Animal { parent { id } }` is accepted and resolved
C8_Accepted ==
    /\ pc = "done" /\ query.pos = "Legged"
    /\ query.sel = <<Fragment("Animal", <<Field("parent", "parent", SubId)>>)>>

(***************************************************************************)
(* C9: an execution that ends with UnknownField issued no store read: the  *)
(* errors are raised while planning, one per offending field reference,    *)
(* however many entities are stored.                                       *)
(***************************************************************************)
C9_ErrorsBeforeStoreCalls ==
    /\ Planned =>
          LET expected == ExpectedErrors(query.pos, query.sel)
          IN expected # <<>> =>
                /\ pc = "failed"
                /\ Len(errors) = Len(expected)
    /\ errors # <<>> =>
          /\ pc = "failed"
          /\ calls = <<>> /\ batches = <<>> /\ DOMAIN relRows = {} /\ result = <<>>

\* one offending reference, two stored entities
C9_Witness ==
    /\ pc = "failed" /\ Len(errors) = 1 /\ calls = <<>>
    /\ Cardinality(StoredOf(query.pos)) = 2

(***************************************************************************)
(* C10: every sibling selection with a validation error is reported: the   *)
(* error list has one error per offending sibling and does not stop at the  *)
(* first.                                                                  *)
(***************************************************************************)
OffendingSiblings(pos, sel) ==
    {i \in DOMAIN sel : ExpectedErrors(pos, <<sel[i]>>) # <<>>}

C10_AllSiblingErrors ==
    Planned =>
        LET off == OffendingSiblings(query.pos, query.sel)
        IN /\ Len(errors) = Cardinality(off)
           /\ \A i \in off : Head(ExpectedErrors(query.pos, <<query.sel[i]>>)) \in Range(errors)
           /\ off # {} => pc = "failed"

\* two different siblings offend and both are reported
C10_Witness ==
    /\ pc = "failed" /\ Len(errors) = 2
    /\ Len(query.sel) = 2 /\ query.sel[1] # query.sel[2]

(***************************************************************************)
(* C11: a collection query (with a valid selection) at an interface none   *)
(* of whose implementor types has a stored entity returns the empty list:  *)
(* no error, and data that is a list, not null.                            *)
(***************************************************************************)
C11_EmptyList ==
    (/\ Planned /\ query.kind = "list"
     /\ StoredOf(query.pos) = {}
     /\ ExpectedErrors(query.pos, query.sel) = <<>>) =>
        /\ pc # "failed"
        /\ errors = <<>>
        /\ pc = "done" =>
              /\ result = <<>>
              /\ Response = ListV(<<>>)
              /\ Response # NullV

\* the store holds a Robot, and the Legged list is empty
C11_Witness ==
    /\ pc = "done" /\ query.kind = "list" /\ query.pos = "Legged"
    /\ \E e \in store : e.entity_type = "Robot"
    /\ StoredOf("Legged") = {}
    /\ errors = <<>>
    /\ Response = ListV(<<>>)

(***************************************************************************)
(* C12: matches returns true exactly if self is an Object of that name, or *)
(* an Interface whose entry in the index holds an object type of that      *)
(* name; for an Object the index is not consulted, and an Interface does   *)
(* not match its own name.  (The interface is one the index knows.)        *)
(***************************************************************************)
C12_Matches ==
    (/\ ret.done /\ call.fn = "matches"
     /\ (call.self.tag = "Object" \/ call.self.def.name \in DOMAIN call.tfi)) =>
        LET expected ==
              \/ call.self.tag = "Object" /\ call.self.def.name = call.typename
              \/ /\ call.self.tag = "Interface"
                 /\ call.typename \in {o.name : o \in Range(call.tfi[call.self.def.name])}
        IN /\ ret.out = Returns(expected)
           /\ call.self.tag = "Object" =>
                 \A x \in Indexes : matches(call.self, call.typename, x) = ret.out
           /\ (call.self.tag = "Interface" /\ call.typename = call.self.def.name) =>
                 ret.out = Returns(FALSE)

\* Pet matches Robot, by the index
C12_Witness ==
    /\ ret.done /\ call.fn = "matches"
    /\ call.self = Interface(PetType) /\ call.typename = "Robot"
    /\ ret.out = Returns(TRUE)

(***************************************************************************)
(* C13: object_types returns Some of the one-element list of the object    *)
(* itself for an Object, whatever the index; Some of the index entry, in   *)
(* the entry's order, for an Interface the index knows; None for an        *)
(* Interface it does not know; it never panics.                            *)
(***************************************************************************)
C13_ObjectTypes ==
    (ret.done /\ call.fn = "object_types") =>
        LET known == call.self.def.name \in DOMAIN call.tfi
        IN /\ call.self.tag = "Object" => ret.out = Some(<<call.self.def>>)
           /\ (call.self.tag = "Interface" /\ known) =>
                 ret.out = Some(call.tfi[call.self.def.name])
           /\ (call.self.tag = "Interface" /\ ~known) => ret.out = None
           /\ "panic" \notin DOMAIN ret.out

\* the index lists Furniture before Animal, and so does the result
C13_Witness ==
    /\ ret.done /\ call.fn = "object_types"
    /\ call.self = Interface(LeggedType)
    /\ ret.out = Some(<<FurnitureType, AnimalType>>)

\* an Interface the index does not know
C13_WitnessNone ==
    /\ ret.done /\ call.fn = "object_types"
    /\ call.self = Interface(PetType) /\ DOMAIN call.tfi = {"Legged"}
    /\ ret.out = None

(***************************************************************************)
(* C14: matches on an Interface whose name the index lacks panics, for     *)
(* every typename; it does not return false.  matches on an Object returns *)
(* and never panics.                                                       *)
(***************************************************************************)
C14_MatchesPanics ==
    (ret.done /\ call.fn = "matches") =>
        /\ (call.self.tag = "Interface" /\ call.self.def.name \notin DOMAIN call.tfi) =>
              /\ "panic" \in DOMAIN ret.out
              /\ "returned" \notin DOMAIN ret.out
        /\ call.self.tag = "Object" => ret.out \in {Returns(TRUE), Returns(FALSE)}

\* Legged is not in the index, Animal is asked for
C14_Witness ==
    /\ ret.done /\ call.fn = "matches"
    /\ call.self = Interface(LeggedType) /\ DOMAIN call.tfi = {"Pet"}
    /\ call.typename = "Animal"
    /\ ret.out = Panic("no entry found for key")

(***************************************************************************)
(* C15: the default resolve_abstract_type, given an object value whose     *)
(* `__typename` is a string naming an object type of the schema, returns   *)
(* Some of that object type, whatever the abstract type is (implemented    *)
(* by it or not); it never returns None; it panics when the value is no    *)
(* object, when `__typename` is missing or no string, and when the name    *)
(* is unknown or names a type that is not an object type.                  *)
(***************************************************************************)
C15_ResolveAbstractType ==
    (ret.done /\ call.fn = "resolve_abstract_type") =>
        LET v == call.object_value
            tagged ==
                /\ v.t = "Object"
                /\ "__typename" \in DOMAIN v.v
                /\ v.v["__typename"].t = "String"
            named == tagged /\ v.v["__typename"].v \in ObjectNames
        IN /\ named =>
                /\ ret.out.some
                /\ ret.out.val \in Range(SchemaObjects)
                /\ ret.out.val.name = v.v["__typename"].v
                /\ \A a \in AbstractTypes :
                      resolve_abstract_type(call.doc, a, v) = ret.out
           /\ ~named => "panic" \in DOMAIN ret.out
           /\ ret.out # None

\* a Furniture value at the position of Pet, which Furniture does not
\* implement
C15_Witness ==
    /\ ret.done /\ call.fn = "resolve_abstract_type"
    /\ call.abstract_type = PetType
    /\ call.object_value = Tagged("Furniture")
    /\ ret.out = Some(FurnitureType)

\* a value tagged with the name of an interface
C15_WitnessPanic ==
    /\ ret.done /\ call.fn = "resolve_abstract_type"
    /\ call.object_value = Tagged("Legged")
    /\ ret.out = Panic("only objects may implement interfaces")

(***************************************************************************)
(* C16: the default resolve_field_stream returns the error NotSupported,   *)
(* with a description, for every schema, object type and field, and never  *)
(* a stream.                                                               *)
(***************************************************************************)
C16_FieldStreamNotSupported ==
    (ret.done /\ call.fn = "resolve_field_stream") =>
        /\ ~ret.out.ok
        /\ ret.out.err.kind = "NotSupported"
        /\ ret.out.err.msg # ""
        /\ "val" \notin DOMAIN ret.out

C16_Witness ==
    /\ ret.done /\ call.fn = "resolve_field_stream"
    /\ call.object_type = AnimalType
    /\ ret.out =
        Err(NotSupported("Resolving field streams is not supported by this resolver"))

(***************************************************************************)
(* C17: the default resolve_enum_value, resolve_scalar_value,              *)
(* resolve_enum_values and resolve_scalar_values return Ok of the fetched  *)
(* value unchanged, Ok(Null) without one, never an error, whatever the     *)
(* field, type and argument parameters are.                                *)
(***************************************************************************)
PassThrough ==
    {"resolve_enum_value", "resolve_scalar_value", "resolve_enum_values",
     "resolve_scalar_values"}

C17_PassThrough ==
    (ret.done /\ call.fn \in PassThrough) =>
        /\ ret.out.ok
        /\ call.value # None => ret.out = Ok(call.value.val)
        /\ call.value = None => ret.out = Ok(NullV)
        /\ "err" \notin DOMAIN ret.out

\* an enum value that its enum type does not list is passed through
C17_Witness ==
    /\ ret.done /\ call.fn = "resolve_enum_value"
    /\ call.value = Some(EnumV("PURPLE"))
    /\ "PURPLE" \notin call.enum_type.values
    /\ ret.out = Ok(EnumV("PURPLE"))

\* no value was fetched
C17_WitnessNull ==
    /\ ret.done /\ call.fn = "resolve_scalar_values"
    /\ call.value = None
    /\ ret.out = Ok(NullV)

(***************************************************************************)
(* C18: the store calls made for a relation field do not grow with the     *)
(* number of parents: for each concrete type among the parents and each    *)
(* relation field selected for it there is one batched call, for a forward *)
(* relation (`parent`) as for a derived one (`children`), and no call is   *)
(* made twice.                                                             *)
(***************************************************************************)
\* the field refers to entities, by the schema's declaration
RefersToEntities(t, f) ==
    Declares(t, f) /\ DeclaredType(t, f) \in ObjectNames \cup InterfaceNames

\* the relation fields selected for concrete type t, by response key
RelationKeys(t, sel) ==
    LET occ == Occurrences(t, sel)
    IN {occ[i].key : i \in {j \in DOMAIN occ : RefersToEntities(t, occ[j].name)}}

\* the response keys a selection uses at its top level, for any type
ResponseKeys(sel) ==
    UNION {{occ.key : occ \in Range(Occurrences(t, sel))} : t \in ObjectNames}

RelationCalls(t, k) ==
    Cardinality({i \in DOMAIN calls :
                    calls[i] = [op |-> "relation", type |-> t, key |-> k]})

C18_OneCallPerRelation ==
    /\ \A i \in DOMAIN calls, j \in DOMAIN calls : i # j => calls[i] # calls[j]
    /\ pc = "done" =>
          /\ \A t \in ObjectNames, k \in ResponseKeys(query.sel) :
                RelationCalls(t, k) =
                    IF /\ \E n \in DOMAIN result : result[n].entity.entity_type = t
                       /\ k \in RelationKeys(t, query.sel)
                    THEN 1 ELSE 0
          /\ \A i \in DOMAIN calls :
                calls[i].op = "relation" =>
                    /\ calls[i].type \in ObjectNames
                    /\ calls[i].key \in RelationKeys(calls[i].type, query.sel)

\* two Animals, each with a child: one call for the derived relation
C18_Witness ==
    /\ pc = "done" /\ query.kind = "list" /\ Len(result) = 2
    /\ \A n \in DOMAIN result :
          /\ result[n].entity.entity_type = "Animal"
          /\ "children" \in DOMAIN result[n].obj.v
          /\ Len(result[n].obj.v["children"].v) = 1
    /\ RelationCalls("Animal", "children") = 1
    /\ Cardinality({i \in DOMAIN calls : calls[i].op = "relation"}) = 1

\* two Animals, each with a parent: one call for the forward relation
C18_WitnessForward ==
    /\ pc = "done" /\ query.kind = "list" /\ Len(result) = 2
    /\ \A n \in DOMAIN result :
          /\ result[n].entity.entity_type = "Animal"
          /\ "parent" \in DOMAIN result[n].obj.v
          /\ result[n].obj.v["parent"].t = "Object"
    /\ Cardinality({i \in DOMAIN calls : calls[i].op = "relation"}) = 1

(***************************************************************************)
(* C19: after the batched fetches every parent has exactly its own related *)
(* entities: the entity its forward reference names, or null when the      *)
(* reference is null; for a derived relation the entities whose back-      *)
(* reference holds the parent's id, the empty list when there are none;    *)
(* also when several parents refer to one entity.                          *)
(***************************************************************************)
\* the object shows entity c, as far as it selects id, legs and __typename
Shows(obj, c) ==
    /\ "id" \in DOMAIN obj.v => obj.v["id"] = IntV(c.entity_id)
    /\ "legs" \in DOMAIN obj.v => obj.v["legs"] = IntV(Attr(c, "legs"))
    /\ "__typename" \in DOMAIN obj.v => obj.v["__typename"] = StringV(c.entity_type)

C19_WitnessDerived ==
    /\ pc = "done" /\ query.kind = "list" /\ Len(result) = 2
    /\ \E n \in DOMAIN result, m \in DOMAIN result :
          /\ result[n].entity.entity_type = "Furniture"
          /\ result[m].entity.entity_type = "Animal"
          /\ "children" \in DOMAIN result[n].obj.v
          /\ Len(result[n].obj.v["children"].v) = 1
          /\ "children" \in DOMAIN result[m].obj.v
          /\ result[m].obj.v["children"] = ListV(<<>>)

(***************************************************************************)
(* C20: the assembled result is determined by the store and the query,     *)
(* whatever order the store calls of a depth returned in: the items of an  *)
(* interface list are in the query's order (the orderBy field, then the    *)
(* id), not in the order in which the per-type fetches arrived.            *)
(***************************************************************************)
\* the entities the query asks for, read off the store
Candidates ==
    IF query.kind = "list" THEN StoredOf(query.pos)
    ELSE {e \in StoredOf(query.pos) : e.entity_id = query.id}

ExpectedRoots ==
    Window(SortEntities(Candidates, query.orderBy), query.first, query.skip)

\* the rows of every relation of the expected roots
ExpectedRows ==
    [job \in RelJobs(query.pos, query.sel, Range(ExpectedRoots)) |->
        FetchRelation(store, query.pos, job.ptype,
                      NameOfKey(job.ptype, query.sel, job.key), Range(ExpectedRoots))]

C20_WitnessOther ==
    /\ pc = "done" /\ query.kind = "list" /\ query.orderBy = "legs"
    /\ Len(calls) >= 2
    /\ calls[1].type = "Animal" /\ calls[2].type = "Furniture"
    /\ Len(result) = 2
    /\ result[1].entity.entity_type = "Animal"
    /\ result[2].entity.entity_type = "Furniture"


(***************************************************************************)
(* C21: fields are merged by response key (the alias, or the name without  *)
(* one) for each concrete type on its own: an entity's object carries      *)
(* exactly the keys selected for its type, each once, and a key's value    *)
(* is resolved from the field selected under that key for the entity's     *)
(* own type, never from the field another type's fragment gives the same   *)
(* alias to.                                                               *)
(***************************************************************************)
\* value v is what field f of entity e resolves to
ResolvedFrom(e, f, v) ==
    IF f = "__typename" THEN v = StringV(e.entity_type)
    ELSE IF ~RefersToEntities(e.entity_type, f)
    THEN v = (IF Attr(e, f) = Null THEN NullV ELSE IntV(Attr(e, f)))
    ELSE IF f = "children"
    THEN /\ v.t = "List"
         /\ Len(v.v) = Cardinality(Related(e, f))
         /\ \A i \in DOMAIN v.v : \E c \in Related(e, f) : Shows(v.v[i], c)
    ELSE IF Related(e, f) = {} THEN v = NullV
    ELSE v.t = "Object" /\ \A c \in Related(e, f) : Shows(v, c)

C21_MergedPerType ==
    pc = "done" =>
        \A n \in DOMAIN result :
            LET e == result[n].entity
                obj == result[n].obj.v
                occ == Occurrences(e.entity_type, query.sel)
            IN /\ DOMAIN obj = {occ[o].key : o \in DOMAIN occ}
               /\ \A o \in DOMAIN occ : ResolvedFrom(e, occ[o].name, obj[occ[o].key])

\* `x: id` on Animal and `x: legs` on Furniture: the Animal's `x` is its
\* id and not its legs, the Furniture's `x` its legs and not its id
C21_Witness ==
    /\ pc = "done" /\ query.kind = "list" /\ Len(query.sel) = 2
    /\ query.sel[1] = Fragment("Animal", <<Field("x", "id", <<>>)>>)
    /\ query.sel[2] = Fragment("Furniture", <<Field("x", "legs", <<>>)>>)
    /\ \E n \in DOMAIN result, m \in DOMAIN result :
          /\ result[n].entity.entity_type = "Animal"
          /\ result[m].entity.entity_type = "Furniture"
          /\ DOMAIN result[n].obj.v = {"x"}
          /\ DOMAIN result[m].obj.v = {"x"}
          /\ result[n].obj.v["x"] = IntV(result[n].entity.entity_id)
          /\ result[n].obj.v["x"] # IntV(Attr(result[n].entity, "legs"))
          /\ result[m].obj.v["x"] = IntV(Attr(result[m].entity, "legs"))
          /\ result[m].obj.v["x"] # IntV(result[m].entity.entity_id)

\* `friend: parent` on Animal and `friend: children` on Furniture: the
\* Animal's `friend` is its parent, the Furniture's the list of its children
C21_WitnessRelation ==
    /\ pc = "done" /\ query.kind = "list" /\ Len(result) = 2
    /\ \E n \in DOMAIN result, m \in DOMAIN result :
          /\ result[n].entity.entity_type = "Animal"
          /\ result[m].entity.entity_type = "Furniture"
          /\ DOMAIN result[n].obj.v = {"friend"}
          /\ DOMAIN result[m].obj.v = {"friend"}
          /\ result[n].obj.v["friend"]
                = ObjectV([id |-> IntV(result[m].entity.entity_id)])
          /\ result[m].obj.v["friend"]
                = ListV(<<ObjectV([id |-> IntV(result[n].entity.entity_id)])>>)


(***************************************************************************)
(* C22: the plan computed for a concrete type lists each response key      *)
(* once, in the document order of the keys' first occurrences among the    *)
(* plain fields and the fragments that apply to the type; a later repeat   *)
(* of a key does not move it.                                              *)
(***************************************************************************)
\* the place in document order where key k first reaches type t
FirstOccurrence(t, sel, k) ==
    LET occ == Occurrences(t, sel)
    IN CHOOSE i \in DOMAIN occ :
          occ[i].key = k /\ \A j \in 1 .. i - 1 : occ[j].key # k

C22_PlanOrder ==
    (ret.done /\ call.fn = "PlanFor") =>
        LET plan == ret.out
            occ == Occurrences(call.typename, call.sel)
            at(i) == FirstOccurrence(call.typename, call.sel, plan[i].key)
        IN /\ {plan[i].key : i \in DOMAIN plan} = {occ[o].key : o \in DOMAIN occ}
           /\ \A i \in DOMAIN plan, j \in DOMAIN plan :
                 i # j => plan[i].key # plan[j].key
           /\ \A i \in DOMAIN plan, j \in DOMAIN plan : i < j => at(i) < at(j)
           /\ \A i \in DOMAIN plan : plan[i].name = occ[at(i)].name

\* `... on Furniture { id } legs id`: for an Animal `id` is found after
\* `legs` and stays there
C22_Witness ==
    /\ ret.done /\ call.fn = "PlanFor" /\ call.typename = "Animal"
    /\ call.sel = <<Fragment("Furniture", <<Field("id", "id", <<>>)>>),
                    Field("legs", "legs", <<>>),
                    Field("id", "id", <<>>)>>
    /\ [i \in DOMAIN ret.out |-> ret.out[i].key] = <<"legs", "id">>

\* the same selection for a Furniture: `id` comes first, from the fragment,
\* and its repeat after `legs` does not move it
C22_WitnessRepeat ==
    /\ ret.done /\ call.fn = "PlanFor" /\ call.typename = "Furniture"
    /\ call.sel = <<Fragment("Furniture", <<Field("id", "id", <<>>)>>),
                    Field("legs", "legs", <<>>),
                    Field("id", "id", <<>>)>>
    /\ [i \in DOMAIN ret.out |-> ret.out[i].key] = <<"id", "legs">>

=============================================================================
